---- MODULE Spec2Model ----
(***************************************************************************)
(* HyperFill model router: ModelRouter (src/ModelRouter/router.py) and its *)
(* CrewAI adapter CrewAIModelRouter (src/ModelRouter/crewai_router.py).    *)
(*                                                                         *)
(* Texts are TLA+ strings; substring search, lower() and replace() are     *)
(* computed character by character.  Python floats are kept in fixed       *)
(* point: confidence in hundredths (0.6 is 60), temperature and the token  *)
(* savings estimate in tenths (0.7 is 7), percentages in tenths of a       *)
(* percent (50.0 is 500).  None is the empty tuple and a present optional  *)
(* value v is <<v>>.                                                       *)
(***************************************************************************)
EXTENDS Integers, Sequences, FiniteSets, TLC

\* Number of classifying calls (route or direct) made on one router.
MaxCalls == 3

\* Number of times each concrete scenario is routed on one router.
MaxScenarioRuns == 1

\* Number of callers that use one adapter at the same time, one call each.
MaxThreads == 2

None == <<>>
Some(v) == <<v>>

\* class ModelSize(Enum)
SMALL == "groq/llama-3.1-8b-instant"
LARGE == "groq/llama-3.3-70b-versatile"
ModelSize == {SMALL, LARGE}

(***************************************************************************)
(* str methods used by classify_task                                       *)
(***************************************************************************)
ascii_uppercase == "ABCDEFGHIJKLMNOPQRSTUVWXYZ"
ascii_lowercase == "abcdefghijklmnopqrstuvwxyz"

\* one character of str.lower()
char_lower(c) ==
    IF \E i \in 1..26 : SubSeq(ascii_uppercase, i, i) = c
    THEN LET i == CHOOSE i \in 1..26 : SubSeq(ascii_uppercase, i, i) = c
         IN  SubSeq(ascii_lowercase, i, i)
    ELSE c

\* str.lower(): every character lowered, computed by halves
RECURSIVE lower(_)
lower(s) ==
    IF Len(s) = 0 THEN ""
    ELSE IF Len(s) = 1 THEN char_lower(s)
    ELSE LET h == Len(s) \div 2
         IN  lower(SubSeq(s, 1, h)) \o lower(SubSeq(s, h + 1, Len(s)))

\* str.replace(old, new) for a one-character old, computed by halves
RECURSIVE replace(_, _, _)
replace(s, old, new) ==
    IF Len(s) = 0 THEN ""
    ELSE IF Len(s) = 1 THEN (IF s = old THEN new ELSE s)
    ELSE LET h == Len(s) \div 2
         IN  replace(SubSeq(s, 1, h), old, new)
             \o replace(SubSeq(s, h + 1, Len(s)), old, new)

\* the Python test `sub in s` on two strings
Contains(sub, s) ==
    \E i \in 1..(Len(s) - Len(sub) + 1) : SubSeq(s, i, i + Len(sub) - 1) = sub

\* the number of times a `for x in phrases: if x in text:` loop body runs
Matches(phrases, text) ==
    Cardinality({i \in 1..Len(phrases) : Contains(phrases[i], text)})

\* `context or ''`
OrEmpty(context) == IF context = None THEN "" ELSE context[1]

\* min(a, b), abs(a)
Min(a, b) == IF a < b THEN a ELSE b
Abs(a) == IF a < 0 THEN 0 - a ELSE a

(***************************************************************************)
(* ModelRouter.__init__: the rules table and the two global phrase lists   *)
(***************************************************************************)
agent_rules ==
    [ pricer |->
        [ default_model |-> LARGE,
          keywords_70b  |-> <<"pricing", "calculation", "arbitrage", "profit",
                              "complex", "strategy", "analysis">>,
          keywords_7b   |-> <<"format", "display", "simple">> ],
      market_analyzer |->
        [ default_model |-> SMALL,
          keywords_70b  |-> <<"analyze", "predict", "complex analysis",
                              "strategy", "reasoning">>,
          keywords_7b   |-> <<"fetch", "format", "json", "data", "translate",
                              "parse", "convert">> ],
      executive |->
        [ default_model |-> SMALL,
          keywords_70b  |-> <<"strategy", "complex decision", "analyze",
                              "evaluate">>,
          keywords_7b   |-> <<"coordinate", "delegate", "status", "simple",
                              "route", "manage">> ],
      inventory |->
        [ default_model |-> SMALL,
          keywords_70b  |-> <<"complex analysis", "strategy", "prediction">>,
          keywords_7b   |-> <<"balance", "update", "check", "simple", "rule",
                              "threshold">> ] ]

complexity_indicators ==
    << "analyze complex", "strategic decision", "calculate profit",
       "arbitrage opportunity", "risk assessment", "multi-step reasoning",
       "evaluate strategy", "complex analysis", "advanced calculation" >>

simple_indicators ==
    << "fetch data", "format json", "parse response", "convert format",
       "simple check", "status update", "basic coordination", "rule-based",
       "threshold check", "simple calculation" >>

\* self.usage_stats as __init__ and reset_stats build it
ZeroStats ==
    [ total_requests |-> 0, small_model_usage |-> 0,
      large_model_usage |-> 0, token_savings_estimate |-> 0 ]

(***************************************************************************)
(* ModelRouter.classify_task                                               *)
(***************************************************************************)
\* agent_type.lower().replace(" ", "_")
NormalizeAgent(agent_type) == replace(lower(agent_type), " ", "_")

\* f"{task_description} {context or ''}".lower()
FullText(task_description, context) ==
    lower(task_description \o " " \o OrEmpty(context))

\* ComplexityScore in which the simple indicators count only for a role
\* with rules
ComplexityScore_SimpleForKnown(agent_type, full_text) ==
    2 * Matches(complexity_indicators, full_text)
    + (IF agent_type \in DOMAIN agent_rules
       THEN Matches(agent_rules[agent_type].keywords_70b, full_text)
            - Matches(agent_rules[agent_type].keywords_7b, full_text)
            - Matches(simple_indicators, full_text)
       ELSE 0)

\* ComplexityScore in which a complexity indicator adds 1 instead of 2
ComplexityScore_UnitWeights(agent_type, full_text) ==
    Matches(complexity_indicators, full_text)
    - Matches(simple_indicators, full_text)
    + (IF agent_type \in DOMAIN agent_rules
       THEN Matches(agent_rules[agent_type].keywords_70b, full_text)
            - Matches(agent_rules[agent_type].keywords_7b, full_text)
       ELSE 0)

\* complexity_score after the global and the agent-specific loops;
\* agent_type is the normalized role
ComplexityScore(agent_type, full_text) ==
    2 * Matches(complexity_indicators, full_text)
    - Matches(simple_indicators, full_text)
    + (IF agent_type \in DOMAIN agent_rules
       THEN Matches(agent_rules[agent_type].keywords_70b, full_text)
            - Matches(agent_rules[agent_type].keywords_7b, full_text)
       ELSE 0)

\* ReasoningRequired that only the global complexity loop sets
ReasoningRequired_GlobalOnly(agent_type, full_text) ==
    Matches(complexity_indicators, full_text) > 0

\* reasoning_required after the same loops
ReasoningRequired(agent_type, full_text) ==
    \/ Matches(complexity_indicators, full_text) > 0
    \/ /\ agent_type \in DOMAIN agent_rules
       /\ Matches(agent_rules[agent_type].keywords_70b, full_text) > 0

\* DefaultModel without the fallback: a role without rules gets None
DefaultModel_NoFallback(agent_type) ==
    IF agent_type \in DOMAIN agent_rules
    THEN agent_rules[agent_type].default_model
    ELSE None

\* DefaultModel that ignores the role's default_model
DefaultModel_AlwaysLarge(agent_type) == LARGE

\* DefaultModel with the fallback for a role without rules set to SMALL
DefaultModel_SmallFallback(agent_type) ==
    IF agent_type \in DOMAIN agent_rules
    THEN agent_rules[agent_type].default_model
    ELSE SMALL

\* self.agent_rules.get(agent_type, {"default_model": LARGE})["default_model"]
DefaultModel(agent_type) ==
    IF agent_type \in DOMAIN agent_rules
    THEN agent_rules[agent_type].default_model
    ELSE LARGE

\* Classification that tries the `complexity_score < -1` rule first
Classification_LowFirst(agent_type, task_description, context) ==
    LET role      == NormalizeAgent(agent_type)
        full_text == FullText(task_description, context)
        score     == ComplexityScore(role, full_text)
        reasoning == ReasoningRequired(role, full_text)
    IN  IF score < -1
        THEN [ agent_type |-> role, task_complexity |-> "low",
               requires_reasoning |-> reasoning, model_size |-> SMALL,
               confidence |-> Min(90, 70 + Abs(score) * 5) ]
        ELSE IF score > 1 \/ reasoning
        THEN [ agent_type |-> role, task_complexity |-> "high",
               requires_reasoning |-> reasoning, model_size |-> LARGE,
               confidence |-> Min(90, 60 + score * 10) ]
        ELSE [ agent_type |-> role, task_complexity |-> "medium",
               requires_reasoning |-> reasoning,
               model_size |-> DefaultModel(role), confidence |-> 60 ]

\* Classification with the first rule reduced to `complexity_score > 1`
Classification_ScoreOnly(agent_type, task_description, context) ==
    LET role      == NormalizeAgent(agent_type)
        full_text == FullText(task_description, context)
        score     == ComplexityScore(role, full_text)
        reasoning == ReasoningRequired(role, full_text)
    IN  IF score > 1
        THEN [ agent_type |-> role, task_complexity |-> "high",
               requires_reasoning |-> reasoning, model_size |-> LARGE,
               confidence |-> Min(90, 60 + score * 10) ]
        ELSE IF score < -1
        THEN [ agent_type |-> role, task_complexity |-> "low",
               requires_reasoning |-> reasoning, model_size |-> SMALL,
               confidence |-> Min(90, 70 + Abs(score) * 5) ]
        ELSE [ agent_type |-> role, task_complexity |-> "medium",
               requires_reasoning |-> reasoning,
               model_size |-> DefaultModel(role), confidence |-> 60 ]

\* "Determine final model": the TaskClassification the call returns
Classification(agent_type, task_description, context) ==
    LET role      == NormalizeAgent(agent_type)
        full_text == FullText(task_description, context)
        score     == ComplexityScore(role, full_text)
        reasoning == ReasoningRequired(role, full_text)
    IN  IF score > 1 \/ reasoning
        THEN [ agent_type |-> role, task_complexity |-> "high",
               requires_reasoning |-> reasoning, model_size |-> LARGE,
               confidence |-> Min(90, 60 + score * 10) ]
        ELSE IF score < -1
        THEN [ agent_type |-> role, task_complexity |-> "low",
               requires_reasoning |-> reasoning, model_size |-> SMALL,
               confidence |-> Min(90, 70 + Abs(score) * 5) ]
        ELSE [ agent_type |-> role, task_complexity |-> "medium",
               requires_reasoning |-> reasoning,
               model_size |-> DefaultModel(role), confidence |-> 60 ]

\* Inputs of the calls made on the router: <<agent_type, task, context>>
AgentTypes == { "Market Analyzer", "nonexistent_role" }
Tasks == { "", "Fetch data and format JSON" }
Contexts == { None, Some("risk assessment") }

\* Inputs of the classification-only specification: every known role, one
\* role that needs normalizing, one unknown role; every text that joins a
\* subset of Fragments; a context with or without a complexity phrase
Fragments ==
    << "risk assessment",
       "pricing strategy",
       "Fetch data, format JSON",
       "parse response, convert format",
       "simple status update, rule-based threshold check" >>
RECURSIVE JoinFragments(_, _)
JoinFragments(chosen, i) ==
    IF i > Len(Fragments) THEN ""
    ELSE LET rest == JoinFragments(chosen, i + 1)
         IN  IF i \notin chosen THEN rest
             ELSE IF rest = "" THEN Fragments[i]
             ELSE Fragments[i] \o " " \o rest
ClassifyAgentTypes ==
    { "pricer", "Market Analyzer", "EXECUTIVE", "inventory",
      "nonexistent_role" }
ClassifyTasks == { JoinFragments(S, 1) : S \in SUBSET (1..Len(Fragments)) }
ClassifyContexts == { None, Some("Analyze complex data") }

\* test_cases of run_tests: the agent, the task and the annotation
test_cases ==
    << << "market_analyzer",
          "Fetch market data and convert to JSON format",
          "Expected: 7B" >>,
       << "market_analyzer",
          "Perform complex analysis of market trends and predict movements",
          "Expected: 70B" >>,
       << "market_analyzer",
          "Parse response data from API and format json",
          "Expected: 7B" >>,
       << "pricer",
          "Calculate arbitrage opportunity between markets with profit analysis",
          "Expected: 70B" >>,
       << "pricer",
          "Display simple pricing information in formatted output",
          "Expected: 7B" >>,
       << "pricer",
          "Analyze complex pricing strategy for multi-leg arbitrage",
          "Expected: 70B" >>,
       << "executive",
          "Coordinate task delegation between agents",
          "Expected: 7B" >>,
       << "executive",
          "Make strategic decision about market entry timing",
          "Expected: 70B" >>,
       << "executive",
          "Route simple status updates to appropriate agents",
          "Expected: 7B" >>,
       << "inventory",
          "Check current balance and update threshold values",
          "Expected: 7B" >>,
       << "inventory",
          "Perform complex analysis of inventory optimization strategy",
          "Expected: 70B" >>,
       << "inventory",
          "Simple rule-based balance check against thresholds",
          "Expected: 7B" >> >>

\* The four concrete scenarios: one data-handling and one analysis task of
\* the market analyzer, the pricer's arbitrage task, the executive's
\* coordination task
Scenarios ==
    << << test_cases[1][1], test_cases[1][2] >>,
       << test_cases[2][1], test_cases[2][2] >>,
       << test_cases[4][1], test_cases[4][2] >>,
       << test_cases[7][1], test_cases[7][2] >> >>

\* The task descriptions the router-enabled client hands to the adapter
MarketAnalyzerTasks == { "fetch market data and analyze spreads" }
PricingTasks ==
    { "calculate complex arbitrage strategies and manage portfolio positions" }
ExecutiveTasks ==
    { "execute trading orders and coordinate workflow",
      "plan and coordinate trading crew tasks" }

Inputs ==
    (AgentTypes \X Tasks \X Contexts)
    \cup (ClassifyAgentTypes \X ClassifyTasks \X ClassifyContexts)
    \cup { << test_cases[i][1], test_cases[i][2], None >> :
               i \in 1..Len(test_cases) }
    \cup ({"market_analyzer"} \X MarketAnalyzerTasks \X {None})
    \cup ({"pricer"} \X PricingTasks \X {None})
    \cup ({"executive"} \X ExecutiveTasks \X {None})

\* Classification evaluated once for every input the specifications draw
Classified ==
    LET f == [ x \in Inputs |-> Classification(x[1], x[2], x[3]) ]
    IN  f @@ << >>

(***************************************************************************)
(* ModelRouterTest: the copy of the rules and of the classifier that the   *)
(* standalone test declares for itself                                     *)
(***************************************************************************)
\* the copy after a repair of the pricer's rules that the production table
\* did not get: "pricing" no longer asks for 70B
ModelRouterTest_agent_rules_Drifted ==
    [ pricer |->
        [ default_model |-> LARGE,
          keywords_70b  |-> <<"calculation", "arbitrage", "profit",
                              "complex", "strategy", "analysis">>,
          keywords_7b   |-> <<"format", "display", "simple">> ],
      market_analyzer |-> agent_rules.market_analyzer,
      executive |-> agent_rules.executive,
      inventory |-> agent_rules.inventory ]

ModelRouterTest_agent_rules ==
    [ pricer |->
        [ default_model |-> LARGE,
          keywords_70b  |-> <<"pricing", "calculation", "arbitrage", "profit",
                              "complex", "strategy", "analysis">>,
          keywords_7b   |-> <<"format", "display", "simple">> ],
      market_analyzer |->
        [ default_model |-> SMALL,
          keywords_70b  |-> <<"analyze", "predict", "complex analysis",
                              "strategy", "reasoning">>,
          keywords_7b   |-> <<"fetch", "format", "json", "data", "translate",
                              "parse", "convert">> ],
      executive |->
        [ default_model |-> SMALL,
          keywords_70b  |-> <<"strategy", "complex decision", "analyze",
                              "evaluate">>,
          keywords_7b   |-> <<"coordinate", "delegate", "status", "simple",
                              "route", "manage">> ],
      inventory |->
        [ default_model |-> SMALL,
          keywords_70b  |-> <<"complex analysis", "strategy", "prediction">>,
          keywords_7b   |-> <<"balance", "update", "check", "simple", "rule",
                              "threshold">> ] ]

ModelRouterTest_complexity_indicators ==
    << "analyze complex", "strategic decision", "calculate profit",
       "arbitrage opportunity", "risk assessment", "multi-step reasoning",
       "evaluate strategy", "complex analysis", "advanced calculation" >>

ModelRouterTest_simple_indicators ==
    << "fetch data", "format json", "parse response", "convert format",
       "simple check", "status update", "basic coordination", "rule-based",
       "threshold check", "simple calculation" >>

\* The TaskClassification ModelRouterTest.classify_task returns
ModelRouterTest_Classification(agent_type, task_description, context) ==
    LET role      == replace(lower(agent_type), " ", "_")
        known     == role \in DOMAIN ModelRouterTest_agent_rules
        default_model ==
            IF known THEN ModelRouterTest_agent_rules[role].default_model
            ELSE LARGE
        full_text == lower(task_description \o " " \o OrEmpty(context))
        complex   == Matches(ModelRouterTest_complexity_indicators, full_text)
        simple    == Matches(ModelRouterTest_simple_indicators, full_text)
        large     == IF known
                     THEN Matches(ModelRouterTest_agent_rules[role]
                                      .keywords_70b, full_text)
                     ELSE 0
        small     == IF known
                     THEN Matches(ModelRouterTest_agent_rules[role]
                                      .keywords_7b, full_text)
                     ELSE 0
        complexity_score   == 2 * complex - simple + large - small
        reasoning_required == complex > 0 \/ large > 0
    IN  IF complexity_score > 1 \/ reasoning_required
        THEN [ agent_type |-> role, task_complexity |-> "high",
               requires_reasoning |-> reasoning_required,
               model_size |-> LARGE,
               confidence |-> Min(90, 60 + complexity_score * 10) ]
        ELSE IF complexity_score < -1
        THEN [ agent_type |-> role, task_complexity |-> "low",
               requires_reasoning |-> reasoning_required,
               model_size |-> SMALL,
               confidence |-> Min(90, 70 + Abs(complexity_score) * 5) ]
        ELSE [ agent_type |-> role, task_complexity |-> "medium",
               requires_reasoning |-> reasoning_required,
               model_size |-> default_model, confidence |-> 60 ]

\* ModelRouterTest_Classification evaluated once for every input
ModelRouterTest_Classified ==
    LET f == [ x \in Inputs |->
                 ModelRouterTest_Classification(x[1], x[2], x[3]) ]
    IN  f @@ << >>

\* TrackUsage that adds the savings estimate on every call
TrackUsage_SavesOnLarge(stats, model_size) ==
    IF model_size = SMALL
    THEN [ stats EXCEPT !.total_requests = @ + 1,
                        !.small_model_usage = @ + 1,
                        !.token_savings_estimate = @ + 7 ]
    ELSE [ stats EXCEPT !.total_requests = @ + 1,
                        !.large_model_usage = @ + 1,
                        !.token_savings_estimate = @ + 7 ]

\* TrackUsage whose else branch counts nothing but the request
TrackUsage_LargeUncounted(stats, model_size) ==
    IF model_size = SMALL
    THEN [ stats EXCEPT !.total_requests = @ + 1,
                        !.small_model_usage = @ + 1,
                        !.token_savings_estimate = @ + 7 ]
    ELSE [ stats EXCEPT !.total_requests = @ + 1 ]

\* TrackUsage with the `else:` lost: large_model_usage grows on every call
TrackUsage_NoElse(stats, model_size) ==
    IF model_size = SMALL
    THEN [ stats EXCEPT !.total_requests = @ + 1,
                        !.small_model_usage = @ + 1,
                        !.token_savings_estimate = @ + 7,
                        !.large_model_usage = @ + 1 ]
    ELSE [ stats EXCEPT !.total_requests = @ + 1,
                        !.large_model_usage = @ + 1 ]

\* "Track real usage statistics": self.usage_stats after a call that
\* recommended model_size
TrackUsage(stats, model_size) ==
    IF model_size = SMALL
    THEN [ stats EXCEPT !.total_requests = @ + 1,
                        !.small_model_usage = @ + 1,
                        !.token_savings_estimate = @ + 7 ]
    ELSE [ stats EXCEPT !.total_requests = @ + 1,
                        !.large_model_usage = @ + 1 ]

\* classify_task whose confidence leaks the request counter
classify_task_Stateful(stats, agent_type, task_description, context) ==
    LET c == Classified[<< agent_type, task_description, context >>]
    IN  [ classification |->
              [ c EXCEPT !.confidence = Min(90, @ + stats.total_requests) ],
          usage_stats    |-> TrackUsage(stats, c.model_size) ]

\* classify_task that runs the tracking block twice
classify_task_TracksTwice(stats, agent_type, task_description, context) ==
    LET c == Classified[<< agent_type, task_description, context >>]
    IN  [ classification |-> c,
          usage_stats    |->
              TrackUsage(TrackUsage(stats, c.model_size), c.model_size) ]

\* classify_task as a whole: the value returned and self.usage_stats after
\* the call, given self.usage_stats before it
classify_task(stats, agent_type, task_description, context) ==
    LET c == Classified[<< agent_type, task_description, context >>]
    IN  [ classification |-> c,
          usage_stats    |-> TrackUsage(stats, c.model_size) ]

(***************************************************************************)
(* ModelRouter.get_model_config, route_request, get_usage_stats,           *)
(* reset_stats                                                             *)
(***************************************************************************)
\* get_model_config that leaves the credential out
get_model_config_NoKey(key, classification) ==
    [ model       |-> classification.model_size,
      temperature |-> IF classification.requires_reasoning THEN 7 ELSE 3,
      api_key     |-> None ]

\* get_model_config with the two temperatures swapped
get_model_config_TempSwapped(key, classification) ==
    [ model       |-> classification.model_size,
      temperature |-> IF classification.requires_reasoning THEN 3 ELSE 7,
      api_key     |-> key ]

get_model_config(key, classification) ==
    [ model       |-> classification.model_size,
      temperature |-> IF classification.requires_reasoning THEN 7 ELSE 3,
      api_key     |-> key ]

\* route_request over a classifier that leaves the counters alone
route_request_NoTracking(key, stats, agent_type, task, context) ==
    LET r == classify_task(stats, agent_type, task, context)
    IN  [ config         |-> get_model_config(key, r.classification),
          classification |-> r.classification,
          usage_stats    |-> stats ]

\* route_request that classifies a second time to build the config
route_request_ClassifiesTwice(key, stats, agent_type, task, context) ==
    LET r == classify_task(stats, agent_type, task, context)
        q == classify_task(r.usage_stats, agent_type, task, context)
    IN  [ config         |-> get_model_config(key, q.classification),
          classification |-> r.classification,
          usage_stats    |-> q.usage_stats ]

\* route_request: (config, classification) and self.usage_stats afterwards
route_request(key, stats, agent_type, task, context) ==
    LET r == classify_task(stats, agent_type, task, context)
    IN  [ config         |-> get_model_config(key, r.classification),
          classification |-> r.classification,
          usage_stats    |-> r.usage_stats ]

\* round(num / den * scale, 1) in tenths, ties to even
RoundTenths(num, den, scale) ==
    LET n == num * scale * 10
        q == n \div den
        r == n % den
    IN  IF 2 * r > den \/ (2 * r = den /\ q % 2 = 1) THEN q + 1 ELSE q

\* get_usage_stats that cuts the derived values to one decimal instead of
\* rounding them
get_usage_stats_Truncates(stats) ==
    LET total_requests == stats.total_requests
    IN  [ total_requests |-> total_requests,
          small_model_usage |-> stats.small_model_usage,
          large_model_usage |-> stats.large_model_usage,
          small_model_percentage |->
              IF total_requests > 0
              THEN (stats.small_model_usage * 1000) \div total_requests
              ELSE 0,
          large_model_percentage |->
              IF total_requests > 0
              THEN (stats.large_model_usage * 1000) \div total_requests
              ELSE 0,
          estimated_token_savings |->
              IF total_requests > 0
              THEN (stats.token_savings_estimate * 100) \div total_requests
              ELSE 0 ]

get_usage_stats(stats) ==
    LET total_requests == stats.total_requests
        small_usage    == stats.small_model_usage
        large_usage    == stats.large_model_usage
        token_savings  == stats.token_savings_estimate
    IN  [ total_requests |-> total_requests,
          small_model_usage |-> small_usage,
          large_model_usage |-> large_usage,
          small_model_percentage |->
              IF total_requests > 0
              THEN RoundTenths(small_usage, total_requests, 100) ELSE 0,
          large_model_percentage |->
              IF total_requests > 0
              THEN RoundTenths(large_usage, total_requests, 100) ELSE 0,
          \* token_savings is in tenths: (token_savings / total) * 100
          estimated_token_savings |->
              IF total_requests > 0
              THEN RoundTenths(token_savings, total_requests, 10) ELSE 0 ]

\* reset_stats that forgets the savings estimate
reset_stats_KeepsSavings(stats) ==
    [ ZeroStats EXCEPT
          !.token_savings_estimate = stats.token_savings_estimate ]

reset_stats(stats) == ZeroStats

(***************************************************************************)
(* CrewAIModelRouter                                                       *)
(***************************************************************************)
\* str(temperature) inside the f-string: "0.7", "0.3"
FloatStr(tenths) ==
    SubSeq("0123456789", (tenths \div 10) + 1, (tenths \div 10) + 1)
    \o "." \o SubSeq("0123456789", (tenths % 10) + 1, (tenths % 10) + 1)

\* CacheKey built from the complexity label instead of the model
CacheKey_ByComplexity(classification, config) ==
    classification.task_complexity \o "_" \o FloatStr(config.temperature)

\* cache_key = f"{classification.model_size.value}_{config['temperature']}"
CacheKey(classification, config) ==
    classification.model_size \o "_" \o FloatStr(config.temperature)

\* LLM(model=..., temperature=..., api_key=...): a new object; id is its
\* identity
LLM(id, config) ==
    [ id |-> id, model |-> config.model,
      temperature |-> config.temperature, api_key |-> config.api_key ]

\* get_embedder_config that follows the router's usage instead of the flag
get_embedder_config_Inverted(key, use_small_model) ==
    [ provider |-> "groq",
      config   |-> [ model   |-> IF use_small_model THEN LARGE ELSE SMALL,
                     api_key |-> key ] ]

\* get_embedder_config
get_embedder_config(key, use_small_model) ==
    [ provider |-> "groq",
      config   |-> [ model   |-> IF use_small_model THEN SMALL ELSE LARGE,
                     api_key |-> key ] ]

(***************************************************************************)
(* State of one CrewAIModelRouter and of the ModelRouter it owns           *)
(***************************************************************************)
VARIABLES
    groq_key,     \* self.groq_key: os.getenv("GROQ_API_KEY"), None if unset
    usage_stats,  \* self.usage_stats
    llm_cache,    \* self._llm_cache: cache key -> LLM object
    llm_count,    \* LLM objects constructed so far (the next id is +1)
    ret,          \* the last call: its name, arguments and outcome
    memo,         \* one earlier classify_task call, kept for comparison
    handed,       \* <<model, temperature>> -> the first LLM that
                  \* get_llm_for_agent returned for the pair
    built,        \* <<model, temperature>> -> number of LLM objects
                  \* constructed for the pair
    threads,      \* callers running get_llm_for_agent on the adapter
                  \* at the same time: where each one is in the method
                  \* and its local variables
    hist          \* calls since construction: route calls, direct
                  \* classify_task calls, whether reset_stats was called,
                  \* the cache keys whose LLM construction raised, how
                  \* often each concrete scenario was routed

vars == << groq_key, usage_stats, llm_cache, llm_count, ret, memo, handed,
           built, threads, hist >>

\* The callers that may use one adapter at the same time
Threads == 1..MaxThreads

\* A caller that is not inside get_llm_for_agent
Idle ==
    [ pc |-> "idle", args |-> None, classification |-> None,
      config |-> None, loaded |-> 0, llm |-> None, raised |-> "" ]

Credentials == { None, Some("gsk_live") }

\* TaskClassification values a caller can hand to get_model_config
Classifications ==
    [ agent_type : {"pricer"}, task_complexity : {"low", "high"},
      requires_reasoning : BOOLEAN, model_size : ModelSize,
      confidence : {60} ]

Init ==
    /\ groq_key \in Credentials
    /\ usage_stats = ZeroStats
    /\ llm_cache = << >>
    /\ llm_count = 0
    /\ ret = [ op |-> "__init__" ]
    /\ memo = None
    /\ handed = << >>
    /\ built = << >>
    /\ hist = [ routes |-> 0, directs |-> 0, reset |-> FALSE,
                failed |-> {},
                scenarios |-> [ i \in 1..Len(Scenarios) |-> 0 ] ]
    /\ threads = [ t \in Threads |-> Idle ]

\* f[k] = v added to or replaced in the dict f
Put(f, k, v) == [ x \in DOMAIN f \cup {k} |-> IF x = k THEN v ELSE f[x] ]

\* router.classify_task(agent_type, task_description, context); keep says
\* whether this call becomes the remembered one
ClassifyTask(agent_type, task_description, context, keep) ==
    /\ hist.routes + hist.directs < MaxCalls
    /\ \E r \in { classify_task(usage_stats, agent_type, task_description,
                                context) } :
       \E call \in { [ op |-> "classify_task",
                       args |-> << agent_type, task_description, context >>,
                       classification |-> r.classification ] } :
           /\ usage_stats' = r.usage_stats
           /\ ret' = call
           /\ memo' = IF keep THEN Some(call) ELSE memo
    /\ hist' = [ hist EXCEPT !.directs = @ + 1 ]
    /\ UNCHANGED threads
    /\ UNCHANGED << groq_key, llm_cache, llm_count, handed, built >>

\* router.get_model_config(classification)
GetModelConfig(classification) ==
    /\ ret' = [ op |-> "get_model_config", args |-> << classification >>,
                config |-> get_model_config(groq_key, classification),
                raised |-> "" ]
    /\ UNCHANGED threads
    /\ UNCHANGED << groq_key, usage_stats, llm_cache, llm_count, memo,
                    handed, built, hist >>

\* router.route_request(agent_type, task, context)
RouteRequest(agent_type, task, context) ==
    /\ hist.routes + hist.directs < MaxCalls
    /\ \E r \in { route_request(groq_key, usage_stats, agent_type, task,
                                context) } :
           /\ usage_stats' = r.usage_stats
           /\ ret' = [ op |-> "route_request",
                       args |-> << agent_type, task, context >>,
                       classification |-> r.classification,
                       config |-> r.config ]
    /\ hist' = [ hist EXCEPT !.routes = @ + 1 ]
    /\ UNCHANGED threads
    /\ UNCHANGED << groq_key, llm_cache, llm_count, memo, handed, built >>

\* router.get_usage_stats()
GetUsageStats ==
    /\ ret' = [ op |-> "get_usage_stats", args |-> << >>,
                stats |-> get_usage_stats(usage_stats) ]
    /\ UNCHANGED threads
    /\ UNCHANGED << groq_key, usage_stats, llm_cache, llm_count, memo,
                    handed, built, hist >>

\* router.reset_stats()
ResetStats ==
    /\ usage_stats' = reset_stats(usage_stats)
    /\ ret' = [ op |-> "reset_stats", args |-> << >> ]
    /\ hist' = [ hist EXCEPT !.reset = TRUE ]
    /\ UNCHANGED threads
    /\ UNCHANGED << groq_key, llm_cache, llm_count, memo, handed, built >>

\* get_llm_for_agent that catches the constructor's error and returns None
GetLlmForAgent_CatchesError(agent_type, task_description, context, constructs) ==
    /\ hist.routes + hist.directs < MaxCalls
    /\ \E r \in { route_request(groq_key, usage_stats, agent_type,
                                task_description, context) } :
       \E cache_key \in { CacheKey(r.classification, r.config) } :
       \E pair \in { << r.classification.model_size,
                        r.config.temperature >> } :
       \E call \in { [ op |-> "get_llm_for_agent",
                       args |-> << agent_type, task_description, context >>,
                       classification |-> r.classification,
                       config |-> r.config ] } :
           /\ usage_stats' = r.usage_stats
           /\ IF cache_key \in DOMAIN llm_cache
              THEN \* return self._llm_cache[cache_key]
                   /\ ret' = call @@ [ llm |-> Some(llm_cache[cache_key]),
                                       hit |-> TRUE, raised |-> "" ]
                   /\ handed' = IF pair \in DOMAIN handed THEN handed
                                ELSE Put(handed, pair, llm_cache[cache_key])
                   /\ hist' = [ hist EXCEPT !.routes = @ + 1 ]
                   /\ UNCHANGED << llm_cache, llm_count, built >>
              ELSE IF constructs
              THEN \* llm = LLM(...); self._llm_cache[cache_key] = llm
                   \E llm \in { LLM(llm_count + 1, r.config) } :
                       /\ llm_count' = llm_count + 1
                       /\ llm_cache' = Put(llm_cache, cache_key, llm)
                       /\ built' = Put(built, pair,
                                       IF pair \in DOMAIN built
                                       THEN built[pair] + 1 ELSE 1)
                       /\ handed' = IF pair \in DOMAIN handed THEN handed
                                    ELSE Put(handed, pair, llm)
                       /\ ret' = call @@ [ llm |-> Some(llm), hit |-> FALSE,
                                           raised |-> "" ]
                       /\ hist' = [ hist EXCEPT !.routes = @ + 1 ]
              ELSE \* LLM(...) raised; the error is swallowed
                   /\ ret' = call @@ [ llm |-> None, hit |-> FALSE,
                                       raised |-> "" ]
                   /\ hist' = [ hist EXCEPT !.routes = @ + 1,
                                            !.failed = @ \cup {cache_key} ]
                   /\ UNCHANGED << llm_cache, llm_count, built, handed >>
    /\ UNCHANGED threads
    /\ UNCHANGED << groq_key, memo >>

\* adapter.get_llm_for_agent(agent_type, task_description, context);
\* constructs says whether the LLM constructor (crewai, outside this
\* repository) returns an object or raises
GetLlmForAgent(agent_type, task_description, context, constructs) ==
    /\ hist.routes + hist.directs < MaxCalls
    /\ \E r \in { route_request(groq_key, usage_stats, agent_type,
                                task_description, context) } :
       \E cache_key \in { CacheKey(r.classification, r.config) } :
       \E pair \in { << r.classification.model_size,
                        r.config.temperature >> } :
       \E call \in { [ op |-> "get_llm_for_agent",
                       args |-> << agent_type, task_description, context >>,
                       classification |-> r.classification,
                       config |-> r.config ] } :
           /\ usage_stats' = r.usage_stats
           /\ IF cache_key \in DOMAIN llm_cache
              THEN \* return self._llm_cache[cache_key]
                   /\ ret' = call @@ [ llm |-> Some(llm_cache[cache_key]),
                                       hit |-> TRUE, raised |-> "" ]
                   /\ handed' = IF pair \in DOMAIN handed THEN handed
                                ELSE Put(handed, pair, llm_cache[cache_key])
                   /\ hist' = [ hist EXCEPT !.routes = @ + 1 ]
                   /\ UNCHANGED << llm_cache, llm_count, built >>
              ELSE IF constructs
              THEN \* llm = LLM(...); self._llm_cache[cache_key] = llm
                   \E llm \in { LLM(llm_count + 1, r.config) } :
                       /\ llm_count' = llm_count + 1
                       /\ llm_cache' = Put(llm_cache, cache_key, llm)
                       /\ built' = Put(built, pair,
                                       IF pair \in DOMAIN built
                                       THEN built[pair] + 1 ELSE 1)
                       /\ handed' = IF pair \in DOMAIN handed THEN handed
                                    ELSE Put(handed, pair, llm)
                       /\ ret' = call @@ [ llm |-> Some(llm), hit |-> FALSE,
                                           raised |-> "" ]
                       /\ hist' = [ hist EXCEPT !.routes = @ + 1 ]
              ELSE \* LLM(...) raised; nothing is stored
                   /\ ret' = call @@ [ llm |-> None, hit |-> FALSE,
                                       raised |-> "LLMError" ]
                   /\ hist' = [ hist EXCEPT !.routes = @ + 1,
                                            !.failed = @ \cup {cache_key} ]
                   /\ UNCHANGED << llm_cache, llm_count, built, handed >>
    /\ UNCHANGED threads
    /\ UNCHANGED << groq_key, memo >>

\* adapter.get_embedder_config(use_small_model)
GetEmbedderConfig(use_small_model) ==
    /\ ret' = [ op |-> "get_embedder_config", args |-> << use_small_model >>,
                config |-> get_embedder_config(groq_key, use_small_model) ]
    /\ UNCHANGED threads
    /\ UNCHANGED << groq_key, usage_stats, llm_cache, llm_count, memo,
                    handed, built, hist >>

\* adapter.get_market_analyzer_llm(task_description)
GetMarketAnalyzerLlm(task_description, constructs) ==
    GetLlmForAgent("market_analyzer", task_description, None, constructs)

\* adapter.get_pricing_llm(task_description)
GetPricingLlm(task_description, constructs) ==
    GetLlmForAgent("pricer", task_description, None, constructs)

\* adapter.get_executive_llm(task_description)
GetExecutiveLlm(task_description, constructs) ==
    GetLlmForAgent("executive", task_description, None, constructs)

\* router.route_request(agent, task) on the i-th concrete scenario
RunScenario(i) ==
    /\ hist.scenarios[i] < MaxScenarioRuns
    /\ \E r \in { route_request(groq_key, usage_stats, Scenarios[i][1],
                                Scenarios[i][2], None) } :
           /\ usage_stats' = r.usage_stats
           /\ ret' = [ op |-> "route_request",
                       args |-> << Scenarios[i][1], Scenarios[i][2], None >>,
                       classification |-> r.classification,
                       config |-> r.config ]
    /\ hist' = [ hist EXCEPT !.routes = @ + 1, !.scenarios[i] = @ + 1 ]
    /\ UNCHANGED threads
    /\ UNCHANGED << groq_key, llm_cache, llm_count, memo, handed, built >>

\* ModelRouterTest.classify_task: it has no tracking block and changes
\* nothing
ModelRouterTest_classify_task(agent_type, task_description, context) ==
    ModelRouterTest_Classified[<< agent_type, task_description, context >>]

\* One iteration of the loop of run_tests, on its own ModelRouterTest: the
\* case after the one ret holds, or the first case when ret holds none
RunTestCase ==
    \E i \in { IF ret.op = "run_tests" THEN ret.case + 1 ELSE 1 } :
        /\ i <= Len(test_cases)
        /\ \E classification \in
                { ModelRouterTest_classify_task(test_cases[i][1],
                                                test_cases[i][2], None) } :
           \E model_name \in
                { IF classification.model_size = LARGE
                  THEN "70B" ELSE "7B" } :
           \E expected_model \in
                { IF Contains("70B", test_cases[i][3])
                  THEN "70B" ELSE "7B" } :
               ret' = [ op |-> "run_tests", case |-> i,
                        args |-> << test_cases[i][1], test_cases[i][2],
                                    None >>,
                        classification |-> classification,
                        model_name |-> model_name,
                        expected_model |-> expected_model,
                        is_correct |-> (model_name = expected_model),
                        correct_predictions |->
                            (IF i = 1 THEN 0 ELSE ret.correct_predictions)
                            + (IF model_name = expected_model
                               THEN 1 ELSE 0) ]
        /\ UNCHANGED threads
        /\ UNCHANGED << groq_key, usage_stats, llm_cache, llm_count, memo,
                        handed, built, hist >>

Next ==
    \/ \E a \in AgentTypes, t \in Tasks, c \in Contexts :
           ClassifyTask(a, t, c, FALSE)
    \/ \E cl \in Classifications : GetModelConfig(cl)
    \/ \E a \in AgentTypes, t \in Tasks, c \in Contexts :
           RouteRequest(a, t, c)
    \/ GetUsageStats
    \/ ResetStats
    \/ \E a \in AgentTypes, t \in Tasks, c \in Contexts,
          constructs \in BOOLEAN :
           GetLlmForAgent(a, t, c, constructs)
    \/ \E b \in BOOLEAN : GetEmbedderConfig(b)

Spec == Init /\ [][Next]_vars

\* The same router when each classify_task call may become the remembered
\* one
NextMemo ==
    \/ \E a \in AgentTypes, t \in Tasks, c \in Contexts, keep \in BOOLEAN :
           ClassifyTask(a, t, c, keep)
    \/ \E a \in AgentTypes, t \in Tasks, c \in Contexts :
           RouteRequest(a, t, c)
    \/ ResetStats
    \/ \E a \in AgentTypes, t \in Tasks, c \in Contexts,
          constructs \in BOOLEAN :
           GetLlmForAgent(a, t, c, constructs)

SpecMemo == Init /\ [][NextMemo]_vars

\* A router on which only classify_task and reset_stats are called, over the
\* large input family
NextClassify ==
    \/ \E a \in ClassifyAgentTypes, t \in ClassifyTasks,
          c \in ClassifyContexts :
           ClassifyTask(a, t, c, FALSE)
    \/ ResetStats

SpecClassify == Init /\ [][NextClassify]_vars

\* A router on which the concrete scenarios are routed, next to the calls
\* of the router-enabled client on the adapter and to the standalone test
NextScenarios ==
    \/ \E i \in 1..Len(Scenarios) : RunScenario(i)
    \/ GetUsageStats
    \/ RunTestCase
    \/ \E t \in MarketAnalyzerTasks, constructs \in BOOLEAN :
           GetMarketAnalyzerLlm(t, constructs)
    \/ \E t \in PricingTasks, constructs \in BOOLEAN :
           GetPricingLlm(t, constructs)
    \/ \E t \in ExecutiveTasks, constructs \in BOOLEAN :
           GetExecutiveLlm(t, constructs)

SpecScenarios == Init /\ [][NextScenarios]_vars

(***************************************************************************)
(* get_llm_for_agent called by several callers at once.  Nothing in        *)
(* ModelRouter or CrewAIModelRouter takes a lock, so the callers interleave *)
(* between any two reads or writes of self.usage_stats and                 *)
(* self._llm_cache.                                                        *)
(***************************************************************************)
\* The usage_stats key a caller at pc loads or stores
CounterAt(pc) ==
    CASE pc \in { "load_total", "store_total" }     -> "total_requests"
      [] pc \in { "load_small", "store_small" }     -> "small_model_usage"
      [] pc \in { "load_savings", "store_savings" } -> "token_savings_estimate"
      [] pc \in { "load_large", "store_large" }     -> "large_model_usage"

\* Where a caller goes after the store at pc, having classified model_size
AfterStore(pc, model_size) ==
    CASE pc = "store_total" ->
             IF model_size = SMALL THEN "load_small" ELSE "load_large"
      [] pc = "store_small"   -> "load_savings"
      [] pc = "store_savings" -> "lookup"
      [] pc = "store_large"   -> "lookup"

\* the positions inside the tracking block of classify_task
TrackingPcs ==
    { "load_total", "store_total", "load_small", "store_small",
      "load_savings", "store_savings", "load_large", "store_large" }

\* the positions after the tracking block
TrackedPcs == { "lookup", "fetch", "construct", "store_llm", "done" }

\* Caller t enters get_llm_for_agent: route_request and classify_task run
\* down to the tracking block; the classification and the config are local
EnterGetLlmForAgent(t, agent_type, task_description, context) ==
    /\ threads[t].pc = "idle"
    /\ \E c \in { Classified[<< agent_type, task_description, context >>] } :
           threads' = [ threads EXCEPT ![t] =
               [ Idle EXCEPT
                   !.pc = "load_total",
                   !.args = Some(<< agent_type, task_description, context >>),
                   !.classification = Some(c),
                   !.config = Some(get_model_config(groq_key, c)) ] ]
    /\ UNCHANGED << groq_key, usage_stats, llm_cache, llm_count, ret, memo,
                    handed, built, hist >>

\* The read half of `self.usage_stats[key] += ...`
LoadCounter(t) ==
    /\ threads[t].pc \in { "load_total", "load_small", "load_savings",
                           "load_large" }
    /\ threads' = [ threads EXCEPT
           ![t].loaded = usage_stats[CounterAt(threads[t].pc)],
           ![t].pc = CASE threads[t].pc = "load_total" -> "store_total"
                       [] threads[t].pc = "load_small" -> "store_small"
                       [] threads[t].pc = "load_savings" -> "store_savings"
                       [] threads[t].pc = "load_large" -> "store_large" ]
    /\ UNCHANGED << groq_key, usage_stats, llm_cache, llm_count, ret, memo,
                    handed, built, hist >>

\* The write half of `self.usage_stats[key] += ...`
StoreCounter(t) ==
    /\ threads[t].pc \in { "store_total", "store_small", "store_savings",
                           "store_large" }
    /\ usage_stats' =
           [ usage_stats EXCEPT ![CounterAt(threads[t].pc)] =
                 threads[t].loaded
                 + (IF threads[t].pc = "store_savings" THEN 7 ELSE 1) ]
    /\ threads' = [ threads EXCEPT
           ![t].pc = AfterStore(threads[t].pc,
                                threads[t].classification[1].model_size) ]
    /\ hist' = IF AfterStore(threads[t].pc,
                             threads[t].classification[1].model_size)
                      = "lookup"
               THEN [ hist EXCEPT !.routes = @ + 1 ] ELSE hist
    /\ UNCHANGED << groq_key, llm_cache, llm_count, ret, memo, handed,
                    built >>

\* `if cache_key in self._llm_cache:`
LookupCache(t) ==
    /\ threads[t].pc = "lookup"
    /\ threads' = [ threads EXCEPT
           ![t].pc = IF CacheKey(threads[t].classification[1],
                                 threads[t].config[1]) \in DOMAIN llm_cache
                     THEN "fetch" ELSE "construct" ]
    /\ UNCHANGED << groq_key, usage_stats, llm_cache, llm_count, ret, memo,
                    handed, built, hist >>

\* `return self._llm_cache[cache_key]`
FetchCached(t) ==
    /\ threads[t].pc = "fetch"
    /\ threads' = [ threads EXCEPT
           ![t].llm = Some(llm_cache[CacheKey(threads[t].classification[1],
                                              threads[t].config[1])]),
           ![t].pc = "done" ]
    /\ UNCHANGED << groq_key, usage_stats, llm_cache, llm_count, ret, memo,
                    handed, built, hist >>

\* `llm = LLM(...)`: a new object, or the constructor raises and the call
\* ends
ConstructLlm(t, constructs) ==
    /\ threads[t].pc = "construct"
    /\ IF constructs
       THEN \E pair \in { << threads[t].classification[1].model_size,
                             threads[t].config[1].temperature >> } :
                /\ llm_count' = llm_count + 1
                /\ built' = Put(built, pair,
                                IF pair \in DOMAIN built
                                THEN built[pair] + 1 ELSE 1)
                /\ threads' = [ threads EXCEPT
                       ![t].llm = Some(LLM(llm_count + 1,
                                           threads[t].config[1])),
                       ![t].pc = "store_llm" ]
       ELSE /\ threads' = [ threads EXCEPT ![t].raised = "LLMError",
                                           ![t].pc = "done" ]
            /\ UNCHANGED << llm_count, built >>
    /\ UNCHANGED << groq_key, usage_stats, llm_cache, ret, memo, handed,
                    hist >>

\* `self._llm_cache[cache_key] = llm` and the return
StoreLlm(t) ==
    /\ threads[t].pc = "store_llm"
    /\ llm_cache' = Put(llm_cache,
                        CacheKey(threads[t].classification[1],
                                 threads[t].config[1]),
                        threads[t].llm[1])
    /\ threads' = [ threads EXCEPT ![t].pc = "done" ]
    /\ UNCHANGED << groq_key, usage_stats, llm_count, ret, memo, handed,
                    built, hist >>

\* Every caller asks through get_default_llm(agent_type), which calls
\* get_llm_for_agent(agent_type, "")
NextConcurrent ==
    \/ \E t \in Threads, a \in AgentTypes :
           EnterGetLlmForAgent(t, a, "", None)
    \/ \E t \in Threads : LoadCounter(t)
    \/ \E t \in Threads : StoreCounter(t)
    \/ \E t \in Threads : LookupCache(t)
    \/ \E t \in Threads : FetchCached(t)
    \/ \E t \in Threads, constructs \in BOOLEAN : ConstructLlm(t, constructs)
    \/ \E t \in Threads : StoreLlm(t)

SpecConcurrent == Init /\ [][NextConcurrent]_vars

(***************************************************************************)
(* Properties                                                              *)
(***************************************************************************)
\* What the loops of classify_task match on each input: the role is in
\* agent_rules; matched complexity indicators, simple indicators, 70b and 7b
\* keywords of the role; the resulting complexity_score
Matched ==
    LET f == [ x \in Inputs |->
                 LET role == NormalizeAgent(x[1])
                     text == FullText(x[2], x[3])
                     known == role \in DOMAIN agent_rules
                 IN  [ known |-> known,
                       complexity |-> Matches(complexity_indicators, text),
                       simple |-> Matches(simple_indicators, text),
                       keywords_70b |->
                           IF known
                           THEN Matches(agent_rules[role].keywords_70b, text)
                           ELSE 0,
                       keywords_7b |->
                           IF known
                           THEN Matches(agent_rules[role].keywords_7b, text)
                           ELSE 0,
                       score |-> ComplexityScore(role, text) ] ]
    IN  f @@ << >>

\* the calls that run classify_task
ClassifyingOps == { "classify_task", "route_request", "get_llm_for_agent" }

\* C1: in every reachable state total_requests equals small_model_usage
\* plus large_model_usage.
C1_TotalIsSmallPlusLarge ==
    usage_stats.total_requests =
        usage_stats.small_model_usage + usage_stats.large_model_usage

\* both tiers were counted again after a reset_stats
C1_Witness ==
    /\ hist.reset
    /\ usage_stats.small_model_usage >= 1
    /\ usage_stats.large_model_usage >= 1

\* C2: while only route calls (route_request, get_llm_for_agent) were made
\* on the router and no reset_stats, total_requests is the number of route
\* calls, cache hit or miss.
C2_TotalIsRouteCalls ==
    (~hist.reset /\ hist.directs = 0) =>
        /\ usage_stats.total_requests = hist.routes
        /\ usage_stats.small_model_usage + usage_stats.large_model_usage
               = hist.routes

\* the third of three route calls was answered from the cache
C2_Witness ==
    /\ ~hist.reset /\ hist.directs = 0 /\ hist.routes >= 3
    /\ ret.op = "get_llm_for_agent" /\ ret.hit
    /\ usage_stats.total_requests = hist.routes

\* C3: the confidence a classification carries is never negative and never
\* above 0.9.
C3_ConfidenceBounds ==
    ret.op \in ClassifyingOps =>
        /\ ret.classification.confidence >= 0
        /\ ret.classification.confidence <= 90

\* C4: when a global complexity phrase occurs in the combined text, the
\* tier is Large, whatever the role and whatever else matches.
C4_ReasoningDominance ==
    (/\ ret.op \in ClassifyingOps
     /\ Matched[ret.args].complexity > 0)
        => ret.classification.model_size = LARGE

\* a complexity phrase was outweighed by simple phrases and role keywords
C4_Witness ==
    /\ ret.op = "classify_task"
    /\ Matched[ret.args].complexity > 0
    /\ Matched[ret.args].simple >= 3
    /\ Matched[ret.args].keywords_7b >= 1
    /\ Matched[ret.args].score < -1
    /\ ret.classification.model_size = LARGE

\* C5: a call that classifies the arguments of the remembered earlier
\* classify_task call returns the classification that call returned.
C5_Determinism ==
    (/\ memo # None
     /\ ret.op \in ClassifyingOps
     /\ ret.args = memo[1].args)
        => ret.classification = memo[1].classification

\* the remembered arguments were classified again by a route call, after
\* other calls and a reset_stats
C5_Witness ==
    /\ memo # None
    /\ ret.op = "get_llm_for_agent"
    /\ ret.args = memo[1].args
    /\ hist.reset
    /\ hist.directs >= 2
    /\ ret.classification = memo[1].classification

\* C6: a role without rules and a text without any global phrase give
\* Large, medium, 0.6.
C6_UnknownRoleFallback ==
    (/\ ret.op \in ClassifyingOps
     /\ ~Matched[ret.args].known
     /\ Matched[ret.args].complexity = 0
     /\ Matched[ret.args].simple = 0)
        => /\ ret.classification.model_size = LARGE
           /\ ret.classification.task_complexity = "medium"
           /\ ret.classification.confidence = 60

\* the unknown role was classified on a text that holds a keyword of every
\* known role
C6_Witness ==
    /\ ret.op = "classify_task"
    /\ ret.args = << "nonexistent_role", "pricing strategy", None >>
    /\ ret.classification.task_complexity = "medium"
    /\ ret.classification.requires_reasoning = FALSE

\* C7: every LLM get_llm_for_agent returns is the one first returned for
\* the same (model, temperature), and at most one LLM is constructed per
\* pair.
C7_CacheReuse ==
    /\ \A p \in DOMAIN built : built[p] <= 1
    /\ (ret.op = "get_llm_for_agent" /\ ret.raised = "") =>
           ret.llm = Some(handed[<< ret.classification.model_size,
                                    ret.config.temperature >>])

\* a call was answered from the cache while a second LLM exists
C7_Witness ==
    /\ ret.op = "get_llm_for_agent" /\ ret.hit
    /\ llm_count >= 2
    /\ ret.llm = Some(handed[<< ret.classification.model_size,
                                ret.config.temperature >>])

C9_MappingFailsWithoutCredential ==
    ret.op = "get_model_config" =>
        (ret.raised = "ConfigurationError" <=> groq_key = None)

\* C9 amended: get_model_config never fails; without a credential it
\* returns a configuration whose api_key is None.
C9_MappingNeverFails ==
    ret.op = "get_model_config" =>
        /\ ret.raised = ""
        /\ (groq_key = None => ret.config.api_key = None)
        /\ (groq_key # None => ret.config.api_key = groq_key)

\* get_model_config returned on a router without credential
C9_Witness ==
    /\ ret.op = "get_model_config"
    /\ groq_key = None
    /\ ret.config.model \in ModelSize

\* C10: get_model_config returns the model of the classification's tier,
\* temperature 0.7 exactly when requires_reasoning, and the router's
\* credential, and changes no router state.
C10_ModelConfig ==
    [][ ret'.op = "get_model_config" =>
            /\ ret'.config.model = ret'.args[1].model_size
            /\ (ret'.args[1].model_size = SMALL =>
                   ret'.config.model = "groq/llama-3.1-8b-instant")
            /\ (ret'.args[1].model_size = LARGE =>
                   ret'.config.model = "groq/llama-3.3-70b-versatile")
            /\ ret'.config.temperature =
                   (IF ret'.args[1].requires_reasoning THEN 7 ELSE 3)
            /\ ret'.config.api_key = groq_key
            /\ UNCHANGED << groq_key, usage_stats, llm_cache, llm_count >>
      ]_vars

\* a SMALL classification that requires reasoning was mapped on a router
\* with counted requests and a cached LLM
C10_Witness ==
    /\ ret.op = "get_model_config"
    /\ ret.args[1].model_size = SMALL
    /\ ret.args[1].requires_reasoning
    /\ ret.config.temperature = 7
    /\ usage_stats.total_requests >= 1
    /\ DOMAIN llm_cache # {}

\* p is num / den rounded to the nearest unit (round(..., 1) when p and num
\* are in tenths)
Nearest(p, num, den) == 2 * Abs(p * den - num) <= den

\* C11 as claimed: get_usage_stats changes neither the counters nor the
\* cache, returns the three counters, and its derived values are exactly
\* small/total*100, large/total*100 and accumulator/total*100, or 0 when
\* total_requests is 0.
C11_ReportExact ==
    [][ ret'.op = "get_usage_stats" =>
            /\ UNCHANGED << usage_stats, llm_cache, llm_count >>
            /\ ret'.stats.total_requests = usage_stats.total_requests
            /\ ret'.stats.small_model_usage = usage_stats.small_model_usage
            /\ ret'.stats.large_model_usage = usage_stats.large_model_usage
            /\ IF usage_stats.total_requests = 0
               THEN /\ ret'.stats.small_model_percentage = 0
                    /\ ret'.stats.large_model_percentage = 0
                    /\ ret'.stats.estimated_token_savings = 0
               ELSE /\ ret'.stats.small_model_percentage
                           * usage_stats.total_requests
                       = usage_stats.small_model_usage * 1000
                    /\ ret'.stats.large_model_percentage
                           * usage_stats.total_requests
                       = usage_stats.large_model_usage * 1000
                    /\ ret'.stats.estimated_token_savings
                           * usage_stats.total_requests
                       = usage_stats.token_savings_estimate * 100 ]_vars

\* C11 amended: get_usage_stats changes neither the counters nor the cache,
\* returns the three counters, and its derived values are small/total*100,
\* large/total*100 and accumulator/total*100 rounded to one decimal place,
\* or 0 when total_requests is 0.
C11_ReportRounded ==
    [][ ret'.op = "get_usage_stats" =>
            /\ UNCHANGED << usage_stats, llm_cache, llm_count >>
            /\ ret'.stats.total_requests = usage_stats.total_requests
            /\ ret'.stats.small_model_usage = usage_stats.small_model_usage
            /\ ret'.stats.large_model_usage = usage_stats.large_model_usage
            /\ IF usage_stats.total_requests = 0
               THEN /\ ret'.stats.small_model_percentage = 0
                    /\ ret'.stats.large_model_percentage = 0
                    /\ ret'.stats.estimated_token_savings = 0
               ELSE /\ Nearest(ret'.stats.small_model_percentage,
                               usage_stats.small_model_usage * 1000,
                               usage_stats.total_requests)
                    /\ Nearest(ret'.stats.large_model_percentage,
                               usage_stats.large_model_usage * 1000,
                               usage_stats.total_requests)
                    /\ Nearest(ret'.stats.estimated_token_savings,
                               usage_stats.token_savings_estimate * 100,
                               usage_stats.total_requests) ]_vars

\* the report of one small request out of three: 33.3 and 66.7 percent,
\* on a router with a cached LLM
C11_Witness ==
    /\ ret.op = "get_usage_stats"
    /\ usage_stats.total_requests = 3
    /\ usage_stats.small_model_usage = 1
    /\ ret.stats.small_model_percentage = 333
    /\ ret.stats.large_model_percentage = 667
    /\ ret.stats.estimated_token_savings = 233
    /\ DOMAIN llm_cache # {}

\* C12: reset_stats sets the four usage fields to zero and leaves the cache
\* as it is, and a call whose key is in the cache returns the cached LLM,
\* before or after a reset_stats.
C12_ResetKeepsCache ==
    [][ /\ ret'.op = "reset_stats" =>
               /\ usage_stats'.total_requests = 0
               /\ usage_stats'.small_model_usage = 0
               /\ usage_stats'.large_model_usage = 0
               /\ usage_stats'.token_savings_estimate = 0
               /\ llm_cache' = llm_cache
               /\ llm_count' = llm_count
        /\ (/\ ret'.op = "get_llm_for_agent"
            /\ CacheKey(ret'.classification, ret'.config)
                   \in DOMAIN llm_cache) =>
               /\ ret'.llm = Some(llm_cache[CacheKey(ret'.classification,
                                                     ret'.config)])
               /\ llm_cache' = llm_cache ]_vars

\* the only LLM ever constructed was returned from the cache by the one
\* call counted since the counters were reset
C12_Witness ==
    /\ hist.reset
    /\ hist.routes + hist.directs >= 2
    /\ usage_stats.total_requests = 1
    /\ ret.op = "get_llm_for_agent" /\ ret.hit
    /\ llm_count = 1
    /\ ret.llm = Some(llm_cache[CacheKey(ret.classification, ret.config)])

\* C19: get_embedder_config returns the SMALL model when its flag is true
\* and the LARGE model when it is false, and leaves the counters, the call
\* history and the cache unchanged.
C19_EmbedderByFlag ==
    [][ ret'.op = "get_embedder_config" =>
            /\ ret'.config.config.model =
                   (IF ret'.args[1] THEN "groq/llama-3.1-8b-instant"
                    ELSE "groq/llama-3.3-70b-versatile")
            /\ UNCHANGED << usage_stats, llm_cache, llm_count, hist >>
      ]_vars

\* the LARGE embedder was asked for on a router that only counted small
\* requests and holds a cached LLM
C19_Witness ==
    /\ ret.op = "get_embedder_config"
    /\ ret.args = << FALSE >>
    /\ ret.config.config.model = LARGE
    /\ usage_stats.small_model_usage >= 2
    /\ usage_stats.large_model_usage = 0
    /\ DOMAIN llm_cache # {}

\* C20: when the LLM constructor raises, get_llm_for_agent raises the same
\* error, returns no LLM and stores nothing; and every call whose key is
\* not in the cache constructs again: it raises or stores a new LLM.
C20_ConstructionFailure ==
    [][ ret'.op = "get_llm_for_agent" =>
            /\ ret'.raised \in { "", "LLMError" }
            /\ ret'.raised = "LLMError" =>
                   /\ ret'.llm = None
                   /\ llm_cache' = llm_cache
                   /\ CacheKey(ret'.classification, ret'.config)
                          \notin DOMAIN llm_cache'
            /\ CacheKey(ret'.classification, ret'.config)
                   \notin DOMAIN llm_cache =>
                   /\ ~ret'.hit
                   /\ \/ ret'.raised = "LLMError"
                      \/ /\ llm_count' = llm_count + 1
                         /\ ret'.llm = Some(LLM(llm_count', ret'.config))
                         /\ llm_cache'[CacheKey(ret'.classification,
                                                ret'.config)]
                                = LLM(llm_count', ret'.config) ]_vars

\* a call constructed the first LLM for a key whose construction had
\* failed before
C20_Witness ==
    /\ ret.op = "get_llm_for_agent"
    /\ ret.raised = "" /\ ~ret.hit
    /\ CacheKey(ret.classification, ret.config) \in hist.failed
    /\ llm_count = 1

\* C13: the four concrete scenarios classify as stated: Small and low;
\* Large with requires_reasoning; Large; Small.
C13_Scenarios ==
    ret.op \in ClassifyingOps =>
        /\ ret.args = << "market_analyzer",
                         "Fetch market data and convert to JSON format",
                         None >>
               => /\ ret.classification.model_size = SMALL
                  /\ ret.classification.task_complexity = "low"
        /\ ret.args = << "market_analyzer",
                         "Perform complex analysis of market trends and predict movements",
                         None >>
               => /\ ret.classification.model_size = LARGE
                  /\ ret.classification.requires_reasoning
        /\ ret.args = << "pricer",
                         "Calculate arbitrage opportunity between markets with profit analysis",
                         None >>
               => ret.classification.model_size = LARGE
        /\ ret.args = << "executive",
                         "Coordinate task delegation between agents",
                         None >>
               => ret.classification.model_size = SMALL

\* every scenario was routed, the executive's last
C13_Witness ==
    /\ \A i \in 1..Len(Scenarios) : hist.scenarios[i] >= 1
    /\ ret.op = "route_request"
    /\ ret.args = << "executive",
                     "Coordinate task delegation between agents", None >>
    /\ ret.classification.model_size = SMALL

\* C14: when each of the four scenarios was routed once on a fresh router
\* and nothing else was, get_usage_stats returns total_requests 4, small 2,
\* large 2 and small_model_percentage 50.0.
C14_ScenarioReport ==
    (/\ ret.op = "get_usage_stats"
     /\ \A i \in 1..Len(Scenarios) : hist.scenarios[i] = 1
     /\ hist.routes = Len(Scenarios) /\ hist.directs = 0 /\ ~hist.reset)
        => /\ ret.stats.total_requests = 4
           /\ ret.stats.small_model_usage = 2
           /\ ret.stats.large_model_usage = 2
           /\ ret.stats.small_model_percentage = 500

\* the report was asked for after the four scenarios
C14_Witness ==
    /\ ret.op = "get_usage_stats"
    /\ \A i \in 1..Len(Scenarios) : hist.scenarios[i] = 1
    /\ hist.routes = Len(Scenarios) /\ hist.directs = 0 /\ ~hist.reset
    /\ ret.stats.total_requests = 4
    /\ ret.stats.small_model_percentage = 500

\* C15: every case of run_tests gets the tier its annotation expects.
C15_TestExpectations ==
    ret.op = "run_tests" =>
        /\ ret.is_correct
        /\ ret.correct_predictions = ret.case

\* C16: the adapter calls of the router-enabled client return an LLM of the
\* tier the comment at the call promises: 8B for the market analyzer's and
\* the executive's tasks, 70B for the pricer's.
C16_ClientTiers ==
    (ret.op = "get_llm_for_agent" /\ ret.raised = "") =>
        /\ (ret.args[1] = "market_analyzer"
            /\ ret.args[2] \in MarketAnalyzerTasks)
               => ret.llm[1].model = SMALL
        /\ (ret.args[1] = "pricer" /\ ret.args[2] \in PricingTasks)
               => ret.llm[1].model = LARGE
        /\ (ret.args[1] = "executive" /\ ret.args[2] \in ExecutiveTasks)
               => ret.llm[1].model = SMALL

\* C17: whenever no caller is inside the tracking block, total_requests is
\* small_model_usage plus large_model_usage and is the number of calls that
\* went through the block, however the callers' reads and writes of the
\* counters interleaved.
C17_AtomicCounters ==
    (\A t \in Threads : threads[t].pc \notin TrackingPcs) =>
        /\ usage_stats.total_requests =
               usage_stats.small_model_usage + usage_stats.large_model_usage
        /\ usage_stats.total_requests =
               Cardinality({ t \in Threads : threads[t].pc \in TrackedPcs })

\* C18: however the callers' lookups, constructions and stores interleave,
\* at most one LLM is constructed for a (model, temperature) pair, and two
\* callers that asked for the same pair hold the same LLM.
C18_SerializedInsertion ==
    /\ \A p \in DOMAIN built : built[p] <= 1
    /\ \A t, u \in Threads :
           (/\ threads[t].pc = "done" /\ threads[u].pc = "done"
            /\ threads[t].llm # None /\ threads[u].llm # None
            /\ CacheKey(threads[t].classification[1], threads[t].config[1])
                   = CacheKey(threads[u].classification[1],
                              threads[u].config[1]))
               => threads[t].llm = threads[u].llm

\* classify_task returns a well-formed TaskClassification on every input
EveryInputClassified ==
    \A x \in Inputs :
        /\ x \in DOMAIN Classified
        /\ Classified[x].model_size \in ModelSize
        /\ Classified[x].task_complexity \in { "low", "medium", "high" }

\* C21: every classify_task call returns a classification whose model_size
\* is SMALL or LARGE and whose task_complexity is low, medium or high, for
\* every role, text and context the callers hand in, with or without the
\* credential; and no input is left without a classification.
C21_ClassificationTotal ==
    /\ EveryInputClassified
    /\ ret.op \in ClassifyingOps =>
           /\ ret.classification.model_size \in ModelSize
           /\ ret.classification.task_complexity
                  \in { "low", "medium", "high" }
           /\ ret.classification.requires_reasoning \in BOOLEAN

\* the unknown role was classified on the empty text without context, on a
\* router without credential
C21_Witness ==
    /\ ret.op = "classify_task"
    /\ groq_key = None
    /\ ret.args = << "nonexistent_role", "", None >>
    /\ ret.classification.model_size = LARGE
    /\ ret.classification.task_complexity = "medium"

\* C22: with score = 2*(complexity phrases) - (simple phrases) + (role 70b
\* keywords) - (role 7b keywords), a classification is (LARGE, high,
\* min(0.9, 0.6 + 0.1*score)) when score > 1 or requires_reasoning, else
\* (SMALL, low, min(0.9, 0.7 + 0.05*|score|)) when score < -1, else (the
\* role's default, LARGE for a role without rules, medium, 0.6).
C22_DecisionRules ==
    ret.op \in ClassifyingOps =>
        LET m     == Matched[ret.args]
            c     == ret.classification
            score == 2 * m.complexity - m.simple
                     + m.keywords_70b - m.keywords_7b
        IN  IF score > 1 \/ c.requires_reasoning
            THEN /\ c.model_size = LARGE
                 /\ c.task_complexity = "high"
                 /\ c.confidence = Min(90, 60 + 10 * score)
            ELSE IF score < -1
            THEN /\ c.model_size = SMALL
                 /\ c.task_complexity = "low"
                 /\ c.confidence = Min(90, 70 + 5 * Abs(score))
            ELSE /\ c.model_size =
                        (IF m.known
                         THEN agent_rules[c.agent_type].default_model
                         ELSE LARGE)
                 /\ c.task_complexity = "medium"
                 /\ c.confidence = 60

\* the second rule decided for a known role, below the cap of 0.9, on a
\* text that matched simple phrases and 7b keywords
C22_Witness ==
    /\ ret.op = "classify_task"
    /\ Matched[ret.args].known
    /\ Matched[ret.args].simple >= 1
    /\ Matched[ret.args].keywords_7b >= 1
    /\ ret.classification.task_complexity = "low"
    /\ ret.classification.model_size = SMALL
    /\ ret.classification.confidence = 85

\* C23: a classification with task_complexity high has confidence at
\* least 0.6.
C23_HighConfidenceFloor ==
    (ret.op \in ClassifyingOps /\ ret.classification.task_complexity = "high")
        => ret.classification.confidence >= 60

\* C24 as claimed: token_savings_estimate grows by 0.7 on a call that
\* returns SMALL and not at all on one that returns LARGE, it is 0.7 times
\* small_model_usage in every state, and get_usage_stats reports exactly
\* 70 * small_model_usage / total_requests when total_requests > 0.
C24_SavingsExact ==
    [][ /\ ret'.op \in ClassifyingOps =>
               usage_stats'.token_savings_estimate =
                   usage_stats.token_savings_estimate
                   + (IF ret'.classification.model_size = SMALL
                      THEN 7 ELSE 0)
        /\ usage_stats'.token_savings_estimate =
               7 * usage_stats'.small_model_usage
        /\ (ret'.op = "get_usage_stats"
            /\ usage_stats'.total_requests > 0) =>
               ret'.stats.estimated_token_savings
                   * usage_stats'.total_requests
               = 700 * usage_stats'.small_model_usage ]_vars

\* C24 amended: token_savings_estimate receives one addition of 0.7 on a
\* call that returns SMALL and none on one that returns LARGE, so that it
\* always holds small_model_usage additions of 0.7, and get_usage_stats
\* reports 70 * small_model_usage / total_requests rounded to one decimal
\* place when total_requests > 0.
C24_SavingsRounded ==
    [][ /\ ret'.op \in ClassifyingOps =>
               usage_stats'.token_savings_estimate =
                   usage_stats.token_savings_estimate
                   + (IF ret'.classification.model_size = SMALL
                      THEN 7 ELSE 0)
        /\ usage_stats'.token_savings_estimate =
               7 * usage_stats'.small_model_usage
        /\ (ret'.op = "get_usage_stats"
            /\ usage_stats'.total_requests > 0) =>
               Nearest(ret'.stats.estimated_token_savings,
                       700 * usage_stats'.small_model_usage,
                       usage_stats'.total_requests) ]_vars

\* after a reset_stats, two small requests out of three are reported as
\* 46.7 percent
C24_Witness ==
    /\ hist.reset
    /\ ret.op = "get_usage_stats"
    /\ usage_stats.total_requests = 3
    /\ usage_stats.small_model_usage = 2
    /\ usage_stats.token_savings_estimate = 14
    /\ ret.stats.estimated_token_savings = 467

C26_TestCopyAgrees ==
    ret.op \in ClassifyingOps =>
        LET t == ModelRouterTest_classify_task(ret.args[1], ret.args[2],
                                               ret.args[3])
        IN  /\ t.model_size = ret.classification.model_size
            /\ t.task_complexity = ret.classification.task_complexity
            /\ t.requires_reasoning = ret.classification.requires_reasoning
            /\ t.confidence = ret.classification.confidence

\* both classifiers agree on a call with a role that needs normalising, a
\* context and phrases of every kind
C26_Witness ==
    /\ ret.op = "classify_task"
    /\ ret.args[1] = "Market Analyzer"
    /\ ret.args[3] # None
    /\ Matched[ret.args].complexity >= 1
    /\ Matched[ret.args].simple >= 2
    /\ Matched[ret.args].keywords_70b >= 1
    /\ Matched[ret.args].keywords_7b >= 1
    /\ ModelRouterTest_classify_task(ret.args[1], ret.args[2], ret.args[3])
           = ret.classification

\* no input is classified SMALL with requires_reasoning set
SmallNeverReasons ==
    \A x \in Inputs :
        Classified[x].model_size = SMALL => ~Classified[x].requires_reasoning

\* C27: a classification with SMALL has requires_reasoning false, a routed
\* configuration for SMALL has temperature 0.3, and the cache never holds
\* an LLM for (SMALL, 0.7) nor more than three LLMs.
C27_SmallNeverHot ==
    /\ SmallNeverReasons
    /\ (ret.op \in ClassifyingOps /\ ret.classification.model_size = SMALL)
           => ~ret.classification.requires_reasoning
    /\ (ret.op \in { "route_request", "get_llm_for_agent" }
        /\ ret.config.model = SMALL)
           => ret.config.temperature = 3
    /\ "groq/llama-3.1-8b-instant_0.7" \notin DOMAIN llm_cache
    /\ \A k \in DOMAIN llm_cache :
           llm_cache[k].model = SMALL => llm_cache[k].temperature = 3
    /\ Cardinality(DOMAIN llm_cache) <= 3

\* the cache holds its three LLMs, the last one stored for a text that
\* asked for reasoning with a negative score
C27_Witness ==
    /\ Cardinality(DOMAIN llm_cache) = 3
    /\ "groq/llama-3.1-8b-instant_0.3" \in DOMAIN llm_cache
    /\ ret.op = "get_llm_for_agent" /\ ~ret.hit /\ ret.raised = ""
    /\ ret.classification.requires_reasoning
    /\ Matched[ret.args].score < -1
    /\ ret.config.model = LARGE /\ ret.config.temperature = 7

\* C28: a positive score comes with requires_reasoning, so `score > 1`
\* never decides alone: task_complexity is high exactly when
\* requires_reasoning is set, and medium or low exactly when no complexity
\* phrase and no 70b keyword of the role matched.
C28_ScoreDisjunctIsDead ==
    ret.op \in ClassifyingOps =>
        LET m     == Matched[ret.args]
            c     == ret.classification
            score == 2 * m.complexity - m.simple
                     + m.keywords_70b - m.keywords_7b
        IN  /\ score > 0 => c.requires_reasoning
            /\ c.task_complexity = "high" <=> c.requires_reasoning
            /\ c.task_complexity \in { "medium", "low" }
                   <=> (m.complexity = 0 /\ m.keywords_70b = 0)

\* a score above 1 made of the role's 70b keywords alone, with
\* requires_reasoning set
C28_Witness ==
    /\ ret.op = "classify_task"
    /\ Matched[ret.args].complexity = 0
    /\ Matched[ret.args].keywords_70b >= 2
    /\ Matched[ret.args].score > 1
    /\ ret.classification.requires_reasoning
    /\ ret.classification.task_complexity = "high"

\* C29: for a role without rules, a text with two or more simple phrases
\* and no complexity phrase is classified SMALL and low, and the role gets
\* LARGE exactly when a complexity phrase matches or at most one simple
\* phrase does.
C29_UnknownRoleCanBeSmall ==
    (ret.op \in ClassifyingOps /\ ~Matched[ret.args].known) =>
        LET m == Matched[ret.args]
            c == ret.classification
        IN  /\ (m.simple >= 2 /\ m.complexity = 0) =>
                   /\ c.model_size = SMALL
                   /\ c.task_complexity = "low"
            /\ c.model_size = LARGE <=> (m.complexity > 0 \/ m.simple <= 1)

\* the unknown role was sent to SMALL by two simple phrases
C29_Witness ==
    /\ ret.op = "classify_task"
    /\ ret.args = << "nonexistent_role", "Fetch data, format JSON", None >>
    /\ Matched[ret.args].simple = 2
    /\ ret.classification.model_size = SMALL
    /\ ret.classification.task_complexity = "low"
    /\ ret.classification.confidence = 80

====
